---- MODULE Spec2Model ----
(***************************************************************************)
(* State-machine model of src/server.js: the SMS webhook handler           *)
(* (POST /webhook/sms), its helpers storeMessage, getOrCreateCustomer,     *)
(* getAIResponse and updateQualificationScore, and the collaborators they  *)
(* call (Supabase tables customers/messages, OpenAI, Twilio).              *)
(*                                                                         *)
(* Every await of the handler is one action: the collaborator call is      *)
(* performed atomically and the handler's synchronous continuation up to   *)
(* its next await is part of the same action.  A collaborator result is    *)
(* drawn from a set R of allowed results ("ok", "fail").                   *)
(***************************************************************************)
EXTENDS Integers, Sequences, FiniteSets, TLC

VARIABLES customers, messages, outbox, ev, arrived

vars == <<customers, messages, outbox, ev, arrived>>

----------------------------------------------------------------------------
(* Bounds *)

MaxEvents == 2          \* webhook requests received in one behaviour
MaxInFlight == 2        \* webhook requests being handled at the same time
MaxHist == 11           \* longest pre-existing message history (SpecHist)

Events == 1..MaxInFlight

(* Inputs of the webhook: req.body = {From, Body, To} *)
Phones == {"+1555", "+1666"}
Lines == {"+1777", "+1888"}
BodyNames ==
  { "hello",
    "YES now",
    "Price?",
    "interested, very interested",
    "I know",
    "buy budget",
    "This is urgent, what's the timeline and cost?",
    "Need it ASAP: how much?" }

(* The characters of each body text *)
BodyText ==
  [ b \in BodyNames |->
      CASE b = "hello" ->
             <<"h","e","l","l","o">>
        [] b = "YES now" ->
             <<"Y","E","S"," ","n","o","w">>
        [] b = "Price?" ->
             <<"P","r","i","c","e","?">>
        [] b = "interested, very interested" ->
             <<"i","n","t","e","r","e","s","t","e","d",","," ","v","e","r","y"," ","i","n","t","e","r","e","s","t","e","d">>
        [] b = "I know" ->
             <<"I"," ","k","n","o","w">>
        [] b = "buy budget" ->
             <<"b","u","y"," ","b","u","d","g","e","t">>
        [] b = "This is urgent, what's the timeline and cost?" ->
             <<"T","h","i","s"," ","i","s"," ","u","r","g","e","n","t",","," ","w","h","a","t","'","s"," ","t","h","e"," ","t","i","m","e","l","i","n","e"," ","a","n","d"," ","c","o","s","t","?">>
        [] b = "Need it ASAP: how much?" ->
             <<"N","e","e","d"," ","i","t"," ","A","S","A","P",":"," ","h","o","w"," ","m","u","c","h","?">> ]

Results == {"ok", "fail"}
OkOnly == {"ok"}

----------------------------------------------------------------------------
(* Program constants *)

WindowLimit == 10

PositiveBonus == 10
UrgentBonus == 15
QualifyingBonus == 5

FallbackReply == "Thanks for your message! Someone will get back to you soon."
AIReply == "completion.choices[0].message.content"

Processed == "Message processed"
HumanReview == "Message stored for human review"
ErrorResponse == "Error processing message"
NoResponse == "pending"

positiveKeywords ==
  { <<"i","n","t","e","r","e","s","t","e","d">>,
    <<"y","e","s">>,
    <<"w","a","n","t">>,
    <<"n","e","e","d">>,
    <<"b","u","y">>,
    <<"p","u","r","c","h","a","s","e">>,
    <<"b","u","d","g","e","t">> }

urgentKeywords ==
  { <<"u","r","g","e","n","t">>,
    <<"a","s","a","p">>,
    <<"s","o","o","n">>,
    <<"n","o","w">>,
    <<"t","o","d","a","y">> }

qualifyingKeywords ==
  { <<"t","i","m","e","l","i","n","e">>,
    <<"w","h","e","n">>,
    <<"h","o","w"," ","m","u","c","h">>,
    <<"c","o","s","t">>,
    <<"p","r","i","c","e">> }

----------------------------------------------------------------------------
(* Scoring: String.prototype.toLowerCase, String.prototype.includes *)

UpperAlpha ==
  <<"A","B","C","D","E","F","G","H","I","J","K","L","M","N","O","P","Q","R","S","T","U","V","W","X","Y","Z">>
LowerAlpha ==
  <<"a","b","c","d","e","f","g","h","i","j","k","l","m","n","o","p","q","r","s","t","u","v","w","x","y","z">>

toLowerCase(s) ==
  [ i \in 1..Len(s) |->
      IF \E k \in 1..26 : UpperAlpha[k] = s[i]
      THEN LowerAlpha[CHOOSE k \in 1..26 : UpperAlpha[k] = s[i]]
      ELSE s[i] ]

includes(s, kw) ==
  \E i \in 0..(Len(s) - Len(kw)) :
     \A j \in 1..Len(kw) : s[i + j] = kw[j]

(* Every matching keyword adds its category's bonus *)
scoreIncrease_PerKeyword(body) ==
  LET message == toLowerCase(BodyText[body])
  IN  PositiveBonus * Cardinality({kw \in positiveKeywords : includes(message, kw)})
    + UrgentBonus * Cardinality({kw \in urgentKeywords : includes(message, kw)})
    + QualifyingBonus * Cardinality({kw \in qualifyingKeywords : includes(message, kw)})

scoreIncrease(body) ==
  LET message == toLowerCase(BodyText[body])
  IN  (IF \E kw \in positiveKeywords : includes(message, kw) THEN PositiveBonus ELSE 0)
    + (IF \E kw \in urgentKeywords : includes(message, kw) THEN UrgentBonus ELSE 0)
    + (IF \E kw \in qualifyingKeywords : includes(message, kw) THEN QualifyingBonus ELSE 0)

----------------------------------------------------------------------------
(* Tables.  customers[i] is the row with surrogate id i; messages[i] is    *)
(* the row whose created_at rank is i (rows are appended in time order).   *)

NullCustomer ==
  [id |-> 0, phone_number |-> "", status |-> "", qualification_score |-> 0,
   is_human_takeover |-> FALSE]

(* Row produced by insert({phone_number, status: 'lead'}).select().single();
   the columns the insert does not name take the table defaults. *)
NewCustomer(id, phoneNumber) ==
  [id |-> id, phone_number |-> phoneNumber, status |-> "lead",
   qualification_score |-> 0, is_human_takeover |-> FALSE]

CustomerIds(phoneNumber) ==
  { i \in 1..Len(customers) : customers[i].phone_number = phoneNumber }

(* .eq('phone_number', p).single(): data is the row when exactly one row
   matches, otherwise data is null and error.code is PGRST116. *)
Single(phoneNumber) ==
  IF Cardinality(CustomerIds(phoneNumber)) = 1
  THEN customers[CHOOSE i \in CustomerIds(phoneNumber) : TRUE]
  ELSE NullCustomer

MessageRow(customerId, phoneNumber, body, direction, sender) ==
  [customer_id |-> customerId, phone_number |-> phoneNumber,
   message_body |-> body, direction |-> direction, sender |-> sender]

(* created_at ranks of the rows of one phone number, ascending *)
RECURSIVE HistoryOf(_, _)
HistoryOf(phoneNumber, n) ==
  IF n = 0 THEN <<>>
  ELSE IF messages[n].phone_number = phoneNumber
       THEN Append(HistoryOf(phoneNumber, n - 1), n)
       ELSE HistoryOf(phoneNumber, n - 1)

(* .order('created_at', {ascending: true}).limit(10) *)
RecentMessages(phoneNumber) ==
  LET h == HistoryOf(phoneNumber, Len(messages))
  IN  SubSeq(h, 1, IF Len(h) < WindowLimit THEN Len(h) ELSE WindowLimit)

----------------------------------------------------------------------------
(* One webhook request.  Fields from, to, body are req.body; storeCall,     *)
(* storeCustomerId, customer, aiResponse, window are the handler's locals;  *)
(* response is what res.status(..).send(..) sent.  The remaining fields     *)
(* record what the request has done so far.                                 *)

IdleEvent ==
  [pc |-> "idle", seq |-> 0, from |-> "", to |-> "", body |-> "",
   storeCall |-> "none", storeCustomerId |-> 0,
   customer |-> NullCustomer, aiResponse |-> "", window |-> <<>>,
   response |-> NoResponse,
   inbound |-> "none", lookup |-> "none", generation |-> "none", dispatch |-> "none",
   outbound |-> "none", scoring |-> "none"]

(* catch (error) { res.status(500).send('Error processing message') } *)
Catch(e) == [e EXCEPT !.pc = "done", !.response = ErrorResponse]

(* storeMessage called with direction and sender in each other's place *)
InboundRow_Swapped(e, customerId) ==
  MessageRow(customerId, e.from, e.body, "customer", "inbound")

InboundRow(e, customerId) ==
  MessageRow(customerId, e.from, e.body, "inbound", "customer")

OutboundRow(e, customerId) ==
  MessageRow(customerId, e.from, e.aiResponse, "outbound", "ai")

(* The reply sent from the configured line, as /api/send-message does *)
DispatchRequest_FixedLine(e) == [body |-> e.aiResponse, from |-> "+1777", to |-> e.from]

(* twilioClient.messages.create({body: aiResponse, from: To, to: From}) *)
DispatchRequest(e) == [body |-> e.aiResponse, from |-> e.to, to |-> e.from]

(* The handler without the takeover check *)
AfterResolve_NoGate(e, customer) ==
  IF customer.id = 0 THEN Catch(e)
  ELSE [e EXCEPT !.pc = "ai_history", !.customer = customer]

(* The handler with the takeover check negated *)
AfterResolve_Negated(e, customer) ==
  IF customer.id = 0 THEN Catch(e)
  ELSE IF ~customer.is_human_takeover
       THEN [e EXCEPT !.pc = "done", !.customer = customer, !.response = HumanReview]
       ELSE [e EXCEPT !.pc = "ai_history", !.customer = customer]

(* Handler lines 47-54: the value returned by getOrCreateCustomer is
   dereferenced; null throws, a set takeover flag ends the request. *)
AfterResolve(e, customer) ==
  IF customer.id = 0 THEN Catch(e)
  ELSE IF customer.is_human_takeover
       THEN [e EXCEPT !.pc = "done", !.customer = customer, !.response = HumanReview]
       ELSE [e EXCEPT !.pc = "ai_history", !.customer = customer]

----------------------------------------------------------------------------
Init ==
  /\ customers = <<>>
  /\ messages = <<>>
  /\ outbox = {}
  /\ ev = [i \in Events |-> IdleEvent]
  /\ arrived = 0

(* No handler invocation is running in slot i: none was started, or the one
   started there has sent its response *)
Free(i) == ev[i].pc \in {"idle", "done"}

(* A request arrives and a handler invocation starts in the first free
   slot: storeMessage(From, Body, 'inbound', 'customer') is called *)
Receive(i, from, to, body) ==
  /\ arrived < MaxEvents
  /\ Free(i)
  /\ \A j \in Events : j < i => ~Free(j)
  /\ arrived' = arrived + 1
  /\ ev' = [ev EXCEPT ![i] = [IdleEvent EXCEPT !.pc = "store_lookup",
                                              !.seq = arrived + 1,
                                              !.from = from, !.to = to, !.body = body,
                                              !.storeCall = "inbound"]]
  /\ UNCHANGED <<customers, messages, outbox>>

(* storeMessage, first await: select('id').eq(phone).single(); the error is
   not read, a failed lookup leaves customer undefined/null. *)
StoreLookup(i, R) ==
  /\ ev[i].pc = "store_lookup"
  /\ \E r \in R :
       ev' = [ev EXCEPT ![i] = [@ EXCEPT !.pc = "store_insert",
                !.storeCustomerId = IF r = "ok" THEN Single(ev[i].from).id ELSE 0]]
  /\ UNCHANGED <<customers, messages, outbox, arrived>>

(* storeMessage, second await: insert into messages.  A failed insert is
   thrown and caught inside storeMessage (lines 118-122); the handler
   continues with the statement after the call in both cases. *)
AfterStore(e, r) ==
  IF e.storeCall = "inbound"
  THEN [e EXCEPT !.pc = "customer_find", !.storeCustomerId = 0,
                 !.inbound = IF r = "ok" THEN "stored" ELSE "failed"]
  ELSE [e EXCEPT !.pc = "score", !.storeCustomerId = 0,
                 !.outbound = IF r = "ok" THEN "stored" ELSE "failed"]

StoreInsert(i, R) ==
  /\ ev[i].pc = "store_insert"
  /\ \E r \in R :
       LET e == ev[i]
           row == IF e.storeCall = "inbound"
                  THEN InboundRow(e, e.storeCustomerId)
                  ELSE OutboundRow(e, e.storeCustomerId)
       IN  /\ messages' = IF r = "ok" THEN Append(messages, row) ELSE messages
           /\ ev' = [ev EXCEPT ![i] = AfterStore(e, r)]
  /\ UNCHANGED <<customers, outbox, arrived>>

(* Every error of the select taken for 'no such customer' *)
NotFound_AnyResult(phoneNumber) == TRUE

(* error && error.code === 'PGRST116' after a select that did not fail *)
NotFound(phoneNumber) == Single(phoneNumber).id = 0

(* Every error of the select, not only PGRST116, leading to the insert *)
AfterFind_CreateOnAnyError(e, r) ==
  IF r = "fail" THEN [e EXCEPT !.pc = "customer_insert", !.lookup = "failed"]
  ELSE IF NotFound(e.from)
       THEN [e EXCEPT !.pc = "customer_insert", !.lookup = "not_found"]
       ELSE AfterResolve([e EXCEPT !.lookup = "found"], Single(e.from))

(* getOrCreateCustomer lines 133-149 after the select: PGRST116 leads to the
   insert; any other error leaves customer null, which is returned as it is
   and dereferenced by the handler. *)
AfterFind(e, r) ==
  IF r = "fail" THEN AfterResolve([e EXCEPT !.lookup = "failed"], NullCustomer)
  ELSE IF NotFound(e.from)
       THEN [e EXCEPT !.pc = "customer_insert", !.lookup = "not_found"]
       ELSE AfterResolve([e EXCEPT !.lookup = "found"], Single(e.from))

(* getOrCreateCustomer, first await: select('*').eq(phone).single() *)
CustomerFind(i, R) ==
  /\ ev[i].pc = "customer_find"
  /\ \E r \in R : ev' = [ev EXCEPT ![i] = AfterFind(ev[i], r)]
  /\ UNCHANGED <<customers, messages, outbox, arrived>>

(* getOrCreateCustomer, second await: insert(...).select().single();
   insertError is rethrown to the handler. *)
CustomerInsert(i, R) ==
  /\ ev[i].pc = "customer_insert"
  /\ \E r \in R :
       LET e == ev[i]
           row == NewCustomer(Len(customers) + 1, e.from)
       IN  /\ customers' = IF r = "ok" THEN Append(customers, row) ELSE customers
           /\ ev' = [ev EXCEPT ![i] =
                       IF r = "ok"
                       THEN AfterResolve(e, row)
                       ELSE Catch(e)]
  /\ UNCHANGED <<messages, outbox, arrived>>

(* getAIResponse, first await: the history query.  A failed query gives
   messages = null, messages.map throws and the catch of getAIResponse
   returns the fallback text. *)
History(i, R) ==
  /\ ev[i].pc = "ai_history"
  /\ \E r \in R :
       LET e == ev[i] IN
       ev' = [ev EXCEPT ![i] =
                IF r = "ok"
                THEN [e EXCEPT !.pc = "ai_generate",
                               !.window = RecentMessages(e.from)]
                ELSE [e EXCEPT !.pc = "dispatch",
                               !.generation = "history_failed",
                               !.aiResponse = FallbackReply]]
  /\ UNCHANGED <<customers, messages, outbox, arrived>>

(* try { return completion... } catch { return fallback } *)
GetAIResponseResult(r) == IF r = "ok" THEN AIReply ELSE FallbackReply

(* getAIResponse, second await: openai.chat.completions.create *)
Generate(i, R) ==
  /\ ev[i].pc = "ai_generate"
  /\ \E r \in R :
       LET e == ev[i] IN
       ev' = [ev EXCEPT ![i] =
                [e EXCEPT !.pc = "dispatch", !.window = <<>>,
                          !.generation = IF r = "ok" THEN "ok" ELSE "generator_failed",
                          !.aiResponse = GetAIResponseResult(r)]]
  /\ UNCHANGED <<customers, messages, outbox, arrived>>

(* await twilioClient.messages.create(...); a rejection goes to the
   handler's catch, otherwise storeMessage(From, aiResponse, 'outbound',
   'ai') starts. *)
Dispatch(i, R) ==
  /\ ev[i].pc = "dispatch"
  /\ \E r \in R :
       LET e == ev[i]
           request == DispatchRequest(e)
       IN  /\ outbox' = IF r = "ok"
                        THEN outbox \cup {[event |-> e.seq, body |-> request.body,
                                           from |-> request.from, to |-> request.to]}
                        ELSE outbox
           /\ ev' = [ev EXCEPT ![i] =
                       IF r = "ok"
                       THEN [e EXCEPT !.pc = "store_lookup", !.dispatch = "sent",
                                      !.storeCall = "outbound"]
                       ELSE Catch([e EXCEPT !.dispatch = "failed"])]
  /\ UNCHANGED <<customers, messages, arrived>>

(* updateQualificationScore rethrowing the failure of the rpc *)
AfterScore_Rethrow(e, outcome) ==
  IF outcome = "failed" THEN Catch([e EXCEPT !.scoring = outcome])
  ELSE [e EXCEPT !.pc = "done", !.scoring = outcome, !.response = Processed]

(* Handler lines 70-73 after updateQualificationScore returned: every
   outcome of the scoring step is swallowed by its own try/catch. *)
AfterScore(e, outcome) ==
  [e EXCEPT !.pc = "done", !.scoring = outcome, !.response = Processed]

(* The rpc also handing the customer over to a human *)
IncrementScore_AutoTakeover(id, increase) ==
  [k \in 1..Len(customers) |->
     IF k = id
     THEN [customers[k] EXCEPT !.qualification_score = @ + increase,
                               !.is_human_takeover = TRUE]
     ELSE customers[k]]

(* The handler adding the increase to the score it read when it resolved
   the customer, and writing the total back *)
IncrementScore_FromSnapshot(id, increase) ==
  LET i == CHOOSE j \in Events : ev[j].pc = "score" /\ ev[j].customer.id = id
  IN  [k \in 1..Len(customers) |->
         IF k = id
         THEN [customers[k] EXCEPT
                 !.qualification_score = ev[i].customer.qualification_score + increase]
         ELSE customers[k]]

(* rpc('increment_qualification_score', {customer_id, score_increase}) *)
IncrementScore(id, increase) ==
  [k \in 1..Len(customers) |->
     IF k = id
     THEN [customers[k] EXCEPT !.qualification_score = @ + increase]
     ELSE customers[k]]

(* The rpc issued whatever the increase is *)
IssuesRpc_Always(increase) == TRUE

(* if (scoreIncrease > 0) *)
IssuesRpc(increase) == increase > 0

(* updateQualificationScore: the rpc is issued only when scoreIncrease > 0 *)
Score(i, R) ==
  /\ ev[i].pc = "score"
  /\ \E r \in R :
       LET e == ev[i]
           increase == scoreIncrease(e.body)
       IN  IF IssuesRpc(increase)
           THEN /\ customers' = IF r = "ok"
                                THEN IncrementScore(e.customer.id, increase)
                                ELSE customers
                /\ ev' = [ev EXCEPT ![i] =
                            AfterScore(e, IF r = "ok" THEN "incremented" ELSE "failed")]
           ELSE /\ customers' = customers
                /\ ev' = [ev EXCEPT ![i] = AfterScore(e, "skipped")]
  /\ UNCHANGED <<messages, outbox, arrived>>

(* The external human-facing actor writes is_human_takeover of a row *)
SetTakeover(id, flag) ==
  /\ id \in 1..Len(customers)
  /\ customers[id].is_human_takeover # flag
  /\ customers' = [customers EXCEPT ![id].is_human_takeover = flag]
  /\ UNCHANGED <<messages, outbox, ev, arrived>>

(* The requests a behaviour draws from: a repeated number on two lines, a
   second number, a body with and a body without keywords *)
Inputs ==
  { <<"+1555", "+1777", "hello">>,
    <<"+1555", "+1888", "YES now">>,
    <<"+1666", "+1888", "YES now">> }

(* The requests drawn when several are handled at once: two numbers, each
   on its own line *)
ConcurrentInputs ==
  { <<"+1555", "+1777", "hello">>,
    <<"+1666", "+1888", "YES now">> }

NoneInFlight == \A j \in Events : Free(j)

(* A request that arrives when no other request is being handled *)
ReceiveAlone(i, from, to, body) ==
  /\ NoneInFlight
  /\ Receive(i, from, to, body)

(* The steps of request i; L is what the customer-id lookup of storeMessage
   may return, R what every other collaborator call may return *)
Step(i, R, L) ==
  \/ StoreLookup(i, L)
  \/ StoreInsert(i, R)
  \/ CustomerFind(i, R)
  \/ CustomerInsert(i, R)
  \/ History(i, R)
  \/ Generate(i, R)
  \/ Dispatch(i, R)
  \/ Score(i, R)

Next ==
  \/ \E i \in Events, in \in Inputs : Receive(i, in[1], in[2], in[3])
  \/ \E i \in Events : Step(i, Results, Results)
  \/ \E id \in 1..MaxEvents, flag \in BOOLEAN : SetTakeover(id, flag)

Spec == Init /\ [][Next]_vars

(* Concurrent requests, no collaborator failures *)
NextConc ==
  \/ \E i \in Events, in \in ConcurrentInputs : Receive(i, in[1], in[2], in[3])
  \/ \E i \in Events : Step(i, OkOnly, OkOnly)
  \/ \E id \in 1..MaxEvents, flag \in BOOLEAN : SetTakeover(id, flag)

SpecConc == Init /\ [][NextConc]_vars

(* One request at a time; every insert, select('*'), query, completion,
   dispatch and rpc may fail *)
NextFail ==
  \/ \E i \in Events, in \in Inputs : ReceiveAlone(i, in[1], in[2], in[3])
  \/ \E i \in Events : Step(i, Results, OkOnly)
  \/ \E id \in 1..MaxEvents, flag \in BOOLEAN : SetTakeover(id, flag)

SpecFail == Init /\ [][NextFail]_vars

(* One request at a time, no collaborator failures *)
NextSeq ==
  \/ \E i \in Events, in \in Inputs : ReceiveAlone(i, in[1], in[2], in[3])
  \/ \E i \in Events : Step(i, OkOnly, OkOnly)
  \/ \E id \in 1..MaxEvents, flag \in BOOLEAN : SetTakeover(id, flag)

SpecSeq == Init /\ [][NextSeq]_vars

(* Concurrent requests from one number, with and without keywords: the
   requests that meet in the score update of one Customer *)
RaceInputs ==
  { <<"+1555", "+1777", "YES now">>,
    <<"+1555", "+1777", "Price?">> }

NextRace ==
  \/ \E i \in Events, in \in RaceInputs : Receive(i, in[1], in[2], in[3])
  \/ \E i \in Events : Step(i, OkOnly, OkOnly)

SpecRace == Init /\ [][NextRace]_vars

(* One request at a time from one number, every body text, no failures *)
ScoreInputs == { <<"+1555", "+1777", b>> : b \in BodyNames }

NextScore ==
  \/ \E i \in Events, in \in ScoreInputs : ReceiveAlone(i, in[1], in[2], in[3])
  \/ \E i \in Events : Step(i, OkOnly, OkOnly)
  \/ \E id \in 1..MaxEvents, flag \in BOOLEAN : SetTakeover(id, flag)

SpecScore == Init /\ [][NextScore]_vars

----------------------------------------------------------------------------
(* POST /api/send-message.  A manual send runs in a slot like a webhook     *)
(* request: to and body are req.body.to and req.body.message.               *)

(* process.env.TWILIO_PHONE_NUMBER *)
ManualLine == "+1777"

ManualMessages == {"operator text"}

ManualSuccess == "success: true"
ManualError == "Failed to send message"

IsManual(e) == e.storeCall = "manual"

(* twilioClient.messages.create({body: message, from: TWILIO_PHONE_NUMBER, to}) *)
ManualRequest(e) == [body |-> e.body, from |-> ManualLine, to |-> e.to]

(* The manual message stored with the sender of the automated replies *)
ManualRow_AsAi(e, customerId) ==
  MessageRow(customerId, e.to, e.body, "outbound", "ai")

(* storeMessage(to, message, 'outbound', 'human') *)
ManualRow(e, customerId) ==
  MessageRow(customerId, e.to, e.body, "outbound", "human")

(* A manual send arrives: twilioClient.messages.create is called *)
ReceiveManual(i, to, message) ==
  /\ arrived < MaxEvents
  /\ Free(i)
  /\ \A j \in Events : j < i => ~Free(j)
  /\ arrived' = arrived + 1
  /\ ev' = [ev EXCEPT ![i] = [IdleEvent EXCEPT !.pc = "manual_dispatch",
                                              !.seq = arrived + 1,
                                              !.to = to, !.body = message,
                                              !.storeCall = "manual"]]
  /\ UNCHANGED <<customers, messages, outbox>>

(* A rejected dispatch carried on with as if it had been sent *)
ManualAfterDispatch_Swallow(e, r) ==
  IF r = "ok"
  THEN [e EXCEPT !.pc = "manual_lookup", !.dispatch = "sent"]
  ELSE [e EXCEPT !.pc = "manual_lookup", !.dispatch = "failed"]

(* Lines 85-98: a rejected dispatch goes to the catch, which answers 500;
   otherwise storeMessage is called. *)
ManualAfterDispatch(e, r) ==
  IF r = "ok"
  THEN [e EXCEPT !.pc = "manual_lookup", !.dispatch = "sent"]
  ELSE [e EXCEPT !.pc = "done", !.dispatch = "failed", !.response = ManualError]

ManualDispatch(i, R) ==
  /\ ev[i].pc = "manual_dispatch"
  /\ \E r \in R :
       LET e == ev[i]
           request == ManualRequest(e)
       IN  /\ outbox' = IF r = "ok"
                        THEN outbox \cup {[event |-> e.seq, body |-> request.body,
                                           from |-> request.from, to |-> request.to]}
                        ELSE outbox
           /\ ev' = [ev EXCEPT ![i] = ManualAfterDispatch(e, r)]
  /\ UNCHANGED <<customers, messages, arrived>>

(* storeMessage for the manual message, first await *)
ManualStoreLookup(i, L) ==
  /\ ev[i].pc = "manual_lookup"
  /\ \E r \in L :
       ev' = [ev EXCEPT ![i] = [@ EXCEPT !.pc = "manual_insert",
                !.storeCustomerId = IF r = "ok" THEN Single(ev[i].to).id ELSE 0]]
  /\ UNCHANGED <<customers, messages, outbox, arrived>>

(* storeMessage for the manual message, second await; the insert error is
   caught inside storeMessage and res.json({success: true, ...}) follows. *)
ManualStoreInsert(i, R) ==
  /\ ev[i].pc = "manual_insert"
  /\ \E r \in R :
       LET e == ev[i] IN
       /\ messages' = IF r = "ok"
                      THEN Append(messages, ManualRow(e, e.storeCustomerId))
                      ELSE messages
       /\ ev' = [ev EXCEPT ![i] =
                   [e EXCEPT !.pc = "done", !.storeCustomerId = 0,
                             !.outbound = IF r = "ok" THEN "stored" ELSE "failed",
                             !.response = ManualSuccess]]
  /\ UNCHANGED <<customers, outbox, arrived>>

ReceiveManualAlone(i, to, message) ==
  /\ NoneInFlight
  /\ ReceiveManual(i, to, message)

ManualStep(i, R, L) ==
  \/ ManualDispatch(i, R)
  \/ ManualStoreLookup(i, L)
  \/ ManualStoreInsert(i, R)

(* Webhook requests and manual sends, one at a time, collaborators may fail *)
NextManual ==
  \/ \E i \in Events, in \in Inputs : ReceiveAlone(i, in[1], in[2], in[3])
  \/ \E i \in Events, to \in Phones, message \in ManualMessages :
        ReceiveManualAlone(i, to, message)
  \/ \E i \in Events : Step(i, Results, OkOnly)
  \/ \E i \in Events : ManualStep(i, Results, OkOnly)
  \/ \E id \in 1..MaxEvents, flag \in BOOLEAN : SetTakeover(id, flag)

SpecManual == Init /\ [][NextManual]_vars

----------------------------------------------------------------------------
(* getAIResponse line 171: the completion request is awaited with no timeout,
   abort signal or race around it.  A request whose promise never settles
   schedules no continuation: the handler invocation stays where it is. *)
GenerateNeverReturns(i) ==
  /\ ev[i].pc = "ai_generate"
  /\ ev' = [ev EXCEPT ![i] = [@ EXCEPT !.pc = "ai_pending", !.generation = "pending"]]
  /\ UNCHANGED <<customers, messages, outbox, arrived>>

(* One request at a time, store and dispatcher working; the completion
   request returns or stays pending *)
NextLive ==
  \/ \E i \in Events, in \in Inputs : ReceiveAlone(i, in[1], in[2], in[3])
  \/ \E i \in Events : Step(i, OkOnly, OkOnly)
  \/ \E i \in Events : GenerateNeverReturns(i)
  \/ \E id \in 1..MaxEvents, flag \in BOOLEAN : SetTakeover(id, flag)

(* The event loop runs the continuation of every settled promise: a handler
   invocation that can take a step eventually takes one. *)
HandlerProgress ==
  WF_vars(\E i \in Events : Step(i, OkOnly, OkOnly) \/ GenerateNeverReturns(i))

SpecLive == Init /\ [][NextLive]_vars /\ HandlerProgress

(* The server starts on a store that already holds n rows for "+1555":
   inbound "hello" and the reply to it in turn, the first row written
   before the customer row existed. *)
StoredHistory(n) ==
  [k \in 1..n |->
     IF k % 2 = 1
     THEN MessageRow(IF k = 1 THEN 0 ELSE 1, "+1555", "hello", "inbound", "customer")
     ELSE MessageRow(1, "+1555", AIReply, "outbound", "ai")]

InitHist ==
  \E n \in 0..MaxHist :
    /\ customers = IF n = 0 THEN <<>> ELSE <<NewCustomer(1, "+1555")>>
    /\ messages = StoredHistory(n)
    /\ outbox = {}
    /\ ev = [i \in Events |-> IdleEvent]
    /\ arrived = 0

SpecHist == InitHist /\ [][NextSeq]_vars

----------------------------------------------------------------------------
(* Properties *)

CustomersOf(table, phoneNumber) ==
  { k \in 1..Len(table) : table[k].phone_number = phoneNumber }

Resolving(e) == e.pc \in {"customer_find", "customer_insert"}

(* C1: in a sequential run without collaborator failures, the request that
   finds no Customer for its number creates exactly one, with status lead
   and score 0; a request that finds one leaves the table alone; no number
   ever has more than one Customer. *)
C1_FirstInboundCreatesOneLead ==
  [][ /\ \A p \in Phones : Cardinality(CustomersOf(customers', p)) <= 1
      /\ \A i \in Events :
           (Resolving(ev[i]) /\ ~Resolving(ev'[i])) =>
             LET p == ev[i].from
                 before == CustomersOf(customers, p)
                 after == CustomersOf(customers', p)
             IN  /\ Cardinality(after) = 1
                 /\ before # {} => customers' = customers
                 /\ before = {} =>
                      /\ Len(customers') = Len(customers) + 1
                      /\ SubSeq(customers', 1, Len(customers)) = customers
                      /\ \A k \in after :
                           /\ customers'[k].status = "lead"
                           /\ customers'[k].qualification_score = 0 ]_vars

(* A second request from a number has completed and the number still has
   the one Customer its first request created. *)
C1_Witness ==
  \E i \in Events :
    /\ ev[i].seq = 2 /\ ev[i].pc = "done" /\ ev[i].response = Processed
    /\ Len(customers) = 1
    /\ customers[1].phone_number = ev[i].from
    /\ ev[i].customer.id = 1

(* C2: under every interleaving of concurrent requests, a phone number has
   at most one Customer. *)
C2_AtMostOneCustomerPerPhone ==
  \A p \in Phones : Cardinality(CustomerIds(p)) <= 1

(* C3: a request that resolved a Customer whose takeover flag is set has
   ended with 'Message stored for human review' and has made no generator
   call, no dispatch, no outbound insert and no score update. *)
C3_TakeoverStopsEvent ==
  \A i \in Events :
    (ev[i].customer.id # 0 /\ ev[i].customer.is_human_takeover) =>
      /\ ev[i].pc = "done"
      /\ ev[i].response = HumanReview
      /\ ev[i].generation = "none" /\ ev[i].aiResponse = ""
      /\ ev[i].dispatch = "none"
      /\ \A m \in outbox : m.event # ev[i].seq
      /\ ev[i].outbound = "none"
      /\ ev[i].scoring = "none"

(* A later request of a number was stopped by the flag. *)
C3_Witness ==
  \E i \in Events :
    /\ ev[i].seq = 2 /\ ev[i].pc = "done" /\ ev[i].response = HumanReview
    /\ ev[i].customer.is_human_takeover
    /\ outbox # {}

CallStep(i) ==
  \/ ev[i].pc = "ai_generate" /\ ev'[i].pc # "ai_generate"
  \/ ev[i].pc = "dispatch" /\ ev'[i].pc # "dispatch"

(* C4 as stated: no generator call and no dispatch is made at a moment at
   which the takeover flag of the request's Customer is set in the store. *)
C4_NoCallWhileTakeoverSet ==
  [][ \A i \in Events :
        CallStep(i) => ~customers[ev[i].customer.id].is_human_takeover ]_vars

(* C4 amended: every generator call and every dispatch is made by a request
   whose own read of the takeover flag returned clear. *)
C4_NoCallAfterReadingSet ==
  [][ \A i \in Events :
        CallStep(i) =>
          /\ ev[i].customer.id \in 1..Len(customers)
          /\ ev[i].customer.phone_number = ev[i].from
          /\ ~ev[i].customer.is_human_takeover ]_vars

(* A request that read the flag clear has dispatched after the flag was set. *)
C4_Witness ==
  \E i \in Events :
    /\ ev[i].dispatch = "sent"
    /\ ~ev[i].customer.is_human_takeover
    /\ customers[ev[i].customer.id].is_human_takeover

HasRow(row) == \E k \in 1..Len(messages) : messages[k] = row

IsInboundOf(row, e) ==
  /\ row.phone_number = e.from /\ row.message_body = e.body
  /\ row.direction = "inbound" /\ row.sender = "customer"

AfterStepOne(e) ==
  \/ e.pc \in {"customer_find", "customer_insert", "ai_history", "ai_generate",
               "dispatch", "score", "done"}
  \/ e.storeCall = "outbound"

(* C5: the inbound insert is attempted before every other step, and once
   the inbound row is stored it stays stored whatever fails later. *)
C5_InboundPersistedFirst ==
  \A i \in Events :
    /\ (\/ ev[i].customer.id # 0 \/ ev[i].generation # "none"
        \/ ev[i].dispatch # "none" \/ ev[i].outbound # "none"
        \/ ev[i].scoring # "none" \/ ev[i].response # NoResponse
        \/ AfterStepOne(ev[i])) => ev[i].inbound # "none"
    /\ ev[i].inbound = "stored" =>
         \E k \in 1..Len(messages) : IsInboundOf(messages[k], ev[i])

(* A request whose later step failed has ended with the error response
   and its inbound row is in the store. *)
C5_Witness ==
  \E i \in Events :
    /\ ev[i].pc = "done" /\ ev[i].response = ErrorResponse
    /\ ev[i].dispatch = "failed"
    /\ ev[i].inbound = "stored"
    /\ \E k \in 1..Len(messages) : IsInboundOf(messages[k], ev[i])

(* C6: a request whose inbound insert failed ends with the error response. *)
C6_InboundFailureIsError ==
  \A i \in Events :
    (ev[i].inbound = "failed" /\ ev[i].response # NoResponse) =>
       ev[i].response = ErrorResponse

(* C7: a request whose inbound insert, customer resolution and dispatch
   succeeded ends with 'Message processed', whatever the generator and the
   score update did. *)
C7_EnrichmentFailureIsSuccess ==
  \A i \in Events :
    (/\ ev[i].pc = "done" /\ ev[i].inbound = "stored"
     /\ ev[i].customer.id # 0 /\ ev[i].dispatch = "sent") =>
       ev[i].response = Processed

(* Both the generator and the increment failed and the request succeeded. *)
C7_Witness ==
  \E i \in Events :
    /\ ev[i].pc = "done" /\ ev[i].response = Processed
    /\ ev[i].generation = "generator_failed"
    /\ ev[i].scoring = "failed"

(* The last n elements of a sequence *)
LastN(h, n) == IF Len(h) <= n THEN h ELSE SubSeq(h, Len(h) - n + 1, Len(h))

(* C8: the window handed to the generator is the last 10 rows of the
   number's history, oldest first (the whole history up to 10 rows). *)
C8_WindowIsMostRecentTen ==
  \A i \in Events :
    ev[i].pc = "ai_generate" =>
      ev[i].window = LastN(HistoryOf(ev[i].from, Len(messages)), WindowLimit)

(* C9: a request whose generator call failed has, when it ends, dispatched
   the fallback text and stored it as an outbound ai row. *)
C9_FallbackDispatchedAndPersisted ==
  \A i \in Events :
    (ev[i].pc = "done" /\ ev[i].generation = "generator_failed") =>
      /\ ev[i].aiResponse = FallbackReply
      /\ \E m \in outbox : m.event = ev[i].seq /\ m.body = FallbackReply
      /\ HasRow(MessageRow(ev[i].customer.id, ev[i].from, FallbackReply,
                           "outbound", "ai"))

(* C10: the message a request dispatched goes out from the line the request
   came in on, to the number it came from. *)
C10_ReplyFromReceivingLine ==
  \A i \in Events :
    /\ ev[i].dispatch = "sent" => \E m \in outbox : m.event = ev[i].seq
    /\ \A m \in outbox :
         m.event = ev[i].seq => (m.from = ev[i].to /\ m.to = ev[i].from)

(* Two requests in flight at once have dispatched from different lines. *)
C10_Witness ==
  \E i, j \in Events :
    /\ ev[i].dispatch = "sent" /\ ev[j].dispatch = "sent"
    /\ ev[i].pc # "done" /\ ev[j].pc # "done"
    /\ ev[i].to # ev[j].to

(* The deltas the three category bonuses can add up to *)
Deltas == {0, 5, 10, 15, 20, 25, 30}

(* The delta of each body text, worked out by hand from the keyword lists *)
ExpectedDelta ==
  [ b \in BodyNames |->
      CASE b = "hello" -> 0
        [] b = "YES now" -> 25
        [] b = "Price?" -> 5
        [] b = "interested, very interested" -> 10
        [] b = "I know" -> 15
        [] b = "buy budget" -> 10
        [] b = "This is urgent, what's the timeline and cost?" -> 20
        [] b = "Need it ASAP: how much?" -> 30 ]

ScoreOf(table, id) == table[id].qualification_score

ScoreStep(i) == ev[i].pc = "score" /\ ev'[i].pc = "done"

(* C11: the scoring step of a request raises the Customer's score by 10 if
   the body holds a positive-intent keyword, plus 15 for an urgency keyword,
   plus 5 for a qualifying keyword, each category counted once: the delta
   is the hand-computed one and is one of 0, 5, 10, 15, 20, 25, 30. *)
C11_DeltaIsSumOfCategoryBonuses ==
  [][ \A i \in Events :
        ScoreStep(i) =>
          LET id == ev[i].customer.id
              delta == ScoreOf(customers', id) - ScoreOf(customers, id)
          IN  /\ delta = ExpectedDelta[ev[i].body]
              /\ delta \in Deltas ]_vars

(* A body with the same positive keyword twice has raised the score of a
   new Customer by 10. *)
C11_Witness ==
  \E i \in Events :
    /\ ev[i].seq = 1 /\ ev[i].pc = "done" /\ ev[i].scoring = "incremented"
    /\ ev[i].body = "interested, very interested"
    /\ ScoreOf(customers, ev[i].customer.id) = 10

(* C12: the scoring step of a request whose body holds no keyword issues no
   increment call and leaves the customers table as it is. *)
C12_ZeroDeltaWritesNothing ==
  [][ \A i \in Events :
        (ScoreStep(i) /\ ExpectedDelta[ev[i].body] = 0) =>
          /\ customers' = customers
          /\ ev'[i].scoring = "skipped" ]_vars

(* A request with body "hello" has been processed without an increment. *)
C12_Witness ==
  \E i \in Events :
    /\ ev[i].pc = "done" /\ ev[i].response = Processed
    /\ ev[i].body = "hello" /\ ev[i].scoring = "skipped"
    /\ ScoreOf(customers, ev[i].customer.id) = 0

(* The deltas credited to customer k by the requests of the slots in S *)
RECURSIVE Credited(_, _)
Credited(k, S) ==
  IF S = {} THEN 0
  ELSE LET i == CHOOSE j \in S : TRUE
       IN  (IF ev[i].customer.id = k /\ ev[i].scoring = "incremented"
            THEN ExpectedDelta[ev[i].body] ELSE 0)
           + Credited(k, S \ {i})

(* C13: a score changes only in the scoring step of a request for that
   customer, which adds its delta to the score stored at that moment; so
   the stored score never falls short of the deltas of the requests that
   have incremented it, however their steps interleave. *)
C13_IncrementsAreNeverLost ==
  [][ /\ \A k \in 1..Len(customers) :
           ScoreOf(customers', k) # ScoreOf(customers, k) =>
             \E i \in Events :
               /\ ScoreStep(i) /\ ev[i].customer.id = k
               /\ ScoreOf(customers', k) =
                    ScoreOf(customers, k) + ExpectedDelta[ev[i].body]
      /\ \A i \in Events :
           (ScoreStep(i) /\ ev'[i].scoring = "incremented") =>
             ScoreOf(customers', ev[i].customer.id) =
               ScoreOf(customers, ev[i].customer.id) + ExpectedDelta[ev[i].body]
      /\ \A k \in 1..Len(customers') :
           ScoreOf(customers', k) >= Credited(k, Events)' ]_vars

(* Two requests read the same Customer at score 0 before either scored;
   both have incremented and the score holds both deltas. *)
C13_Witness ==
  \E i, j \in Events :
    /\ i # j
    /\ ev[i].customer.id # 0 /\ ev[i].customer.id = ev[j].customer.id
    /\ ev[i].customer.qualification_score = 0
    /\ ev[j].customer.qualification_score = 0
    /\ ev[i].scoring = "incremented" /\ ev[j].scoring = "incremented"
    /\ ScoreOf(customers, ev[i].customer.id) = 50

(* C14: a request whose dispatch failed has still stored the outbound ai
   row of its reply. *)
C14_OutboundRecordedOnDispatchFailure ==
  \A i \in Events :
    (ev[i].pc = "done" /\ ev[i].dispatch = "failed") =>
      \E k \in 1..Len(messages) :
        /\ messages[k].phone_number = ev[i].from
        /\ messages[k].message_body = ev[i].aiResponse
        /\ messages[k].direction = "outbound" /\ messages[k].sender = "ai"

SentFromManualLine(e) ==
  \E m \in outbox :
    /\ m.event = e.seq /\ m.from = ManualLine
    /\ m.to = e.to /\ m.body = e.body

IsManualRowOf(row, e) ==
  /\ row.phone_number = e.to /\ row.message_body = e.body
  /\ row.direction = "outbound" /\ row.sender = "human"

(* C15: a manual send dispatches first, whatever the customers table holds
   for its target; once the dispatch succeeded the message has gone out
   from the fixed line, and the send ends with success and, unless the
   insert itself failed, with an outbound human row. *)
C15_ManualSendIgnoresTakeover ==
  \A i \in Events :
    IsManual(ev[i]) =>
      /\ ev[i].pc # "manual_dispatch" => ev[i].dispatch # "none"
      /\ ev[i].dispatch = "sent" => SentFromManualLine(ev[i])
      /\ (ev[i].pc = "done" /\ ev[i].dispatch = "sent") =>
           /\ ev[i].response = ManualSuccess
           /\ ev[i].outbound # "none"
           /\ ev[i].outbound = "stored" =>
                \E k \in 1..Len(messages) : IsManualRowOf(messages[k], ev[i])

(* A manual send to a number whose Customer is under takeover succeeded. *)
C15_Witness ==
  \E i \in Events :
    /\ IsManual(ev[i]) /\ ev[i].pc = "done" /\ ev[i].response = ManualSuccess
    /\ ev[i].outbound = "stored"
    /\ CustomerIds(ev[i].to) # {}
    /\ \A k \in CustomerIds(ev[i].to) : customers[k].is_human_takeover
    /\ \E k \in 1..Len(messages) : IsManualRowOf(messages[k], ev[i])

(* C16: with store and dispatcher working, every request that found the
   takeover flag clear eventually has its reply dispatched and completes,
   also when the completion request never returns. *)
C16_ReplyEventuallyDispatched ==
  \A i \in Events :
    (ev[i].pc = "ai_history") ~> (ev[i].pc = "done" /\ ev[i].dispatch = "sent")

(* C17: one request at a time and no store failure: once the request that
   stored a row has completed, the row carries the id of the Customer of its
   phone number. *)
C17_StoredRowsCarryCustomerId ==
  NoneInFlight =>
    \A k \in 1..Len(messages) :
      /\ messages[k].customer_id # 0
      /\ messages[k].customer_id \in CustomerIds(messages[k].phone_number)

LookupFailed(e) == e.lookup = "failed"

(* C18: a customer lookup that fails with an error other than 'not found'
   ends the request with the error response: the failing step creates no
   Customer and changes neither the messages nor the outbox, the request
   has called neither generator nor dispatcher, has updated no score, and
   its inbound row stays stored. *)
C18_LookupFailureAborts ==
  [][\A i \in Events :
       LookupFailed(ev'[i]) =>
         /\ ev'[i].pc = "done" /\ ev'[i].response = ErrorResponse
         /\ ev'[i].customer = NullCustomer
         /\ ev'[i].generation = "none" /\ ev'[i].dispatch = "none"
         /\ ev'[i].outbound = "none" /\ ev'[i].scoring = "none"
         /\ \A m \in outbox' : m.event # ev'[i].seq
         /\ ev'[i].inbound = "stored" =>
              \E k \in 1..Len(messages') : IsInboundOf(messages'[k], ev'[i])
         /\ ~LookupFailed(ev[i]) =>
              /\ customers' = customers
              /\ messages' = messages
              /\ outbox' = outbox]_vars

(* The lookup of a number that has no Customer failed; the request ended
   with the error response and its inbound row is stored. *)
C18_Witness ==
  \E i \in Events :
    /\ LookupFailed(ev[i]) /\ ev[i].pc = "done"
    /\ ev[i].response = ErrorResponse
    /\ ev[i].inbound = "stored"
    /\ CustomerIds(ev[i].from) = {}
    /\ \E k \in 1..Len(messages) : IsInboundOf(messages[k], ev[i])

(* The step is one of a handler invocation: every handler step moves the
   request it belongs to, the external actor moves none. *)
HandlerStep == ev' # ev

(* Request i obtains its customer row in this step *)
ResolvesNow(i) ==
  /\ ev[i].pc \in {"customer_find", "customer_insert"}
  /\ ev'[i].customer.id # 0

(* C19: no step of the webhook handler or of the manual send changes
   is_human_takeover of an existing Customer, on success or on failure; and
   the flag a webhook request acts on is the one the store holds at the step
   that resolves its customer. *)
C19_TakeoverFlagIsReadOnly ==
  [][/\ HandlerStep =>
          /\ Len(customers') >= Len(customers)
          /\ \A k \in 1..Len(customers) :
               customers'[k].is_human_takeover = customers[k].is_human_takeover
     /\ \A i \in Events :
          ResolvesNow(i) =>
            /\ ev'[i].customer.is_human_takeover
                 = customers'[ev'[i].customer.id].is_human_takeover
            /\ (ev'[i].response = HumanReview)
                 <=> customers'[ev'[i].customer.id].is_human_takeover]_vars

(* The human set the flag while a request was between resolution and the
   score update; the request incremented the score and the flag is still
   set. *)
C19_Witness ==
  \E i \in Events :
    /\ ev[i].pc = "done" /\ ev[i].scoring = "incremented"
    /\ ~ev[i].customer.is_human_takeover
    /\ ev[i].customer.id \in 1..Len(customers)
    /\ customers[ev[i].customer.id].is_human_takeover

(* C20: in a manual send the human row is inserted only after the dispatch
   succeeded.  A failed dispatch ends the send with the 500 answer, nothing
   is inserted by that step or later, and success is answered only for a
   message that was dispatched. *)
C20_ManualPersistsOnlyAfterDispatch ==
  [][\A i \in Events :
       IsManual(ev'[i]) =>
         /\ ev'[i].dispatch = "failed" =>
              /\ ev'[i].pc = "done" /\ ev'[i].response = ManualError
              /\ ev'[i].outbound = "none"
              /\ ev[i].dispatch # "failed" =>
                   /\ messages' = messages
                   /\ customers' = customers
                   /\ outbox' = outbox
         /\ ev'[i].outbound # "none" => ev'[i].dispatch = "sent"
         /\ (ev[i] # ev'[i] /\ messages' # messages) => ev[i].dispatch = "sent"
         /\ ev'[i].response = ManualSuccess =>
              /\ ev'[i].dispatch = "sent"
              /\ \E m \in outbox' :
                   /\ m.event = ev'[i].seq /\ m.to = ev'[i].to
                   /\ m.body = ev'[i].body]_vars

(* The dispatch of a manual send failed: it answered 500 and the store
   holds no row for the message. *)
C20_Witness ==
  \E i \in Events :
    /\ IsManual(ev[i]) /\ ev[i].pc = "done"
    /\ ev[i].dispatch = "failed" /\ ev[i].response = ManualError
    /\ \A k \in 1..Len(messages) : ~IsManualRowOf(messages[k], ev[i])
====
